---- MODULE Spec2Model ----
(***************************************************************************)
(* NeuroBridge Discord bot: the rewrite client (rewriteText, extractText)  *)
(* and the interactionCreate handler with its in-memory draft store.       *)
(*                                                                         *)
(* The source holds the rewrite client (lines 1-73) and three revisions of *)
(* the bot entry point: lines 75-312 and 314-511 (same handler logic,      *)
(* build "v1") and lines 513-663 (build "v3").  The variable build says    *)
(* which handler is registered with the client.                            *)
(*                                                                         *)
(* A handler is suspended at each await and other handlers run meanwhile.   *)
(* Awaits of platform calls that touch no state shared between handlers     *)
(* (deferReply, showModal, editReply, reply, fetchWebhooks, createWebhook,  *)
(* channels.fetch) commute with every step of every other handler, so they  *)
(* are folded into the step before or after them, with their outcome        *)
(* (resolved or rejected) chosen in that step.  The suspensions kept are    *)
(* the rewrite call and the post of the rewritten text.                     *)
(*                                                                         *)
(* rewriteText shares no state with the handlers: it reads process.env and  *)
(* its argument and returns a result.  SpecRewrite follows one call step by *)
(* step (fetch, timer, body); in Spec, the bot, the call made by a modal    *)
(* handler is one suspension that settles with any outcome the call can     *)
(* have (CallOutcomes).  SpecTwice follows two calls side by side.           *)
(***************************************************************************)
EXTENDS Integers, Sequences, FiniteSets, TLC

\* ---------------------------------------------------------------- bounds
MaxEvents == 3          \* interactions dispatched in one run
MaxTicks == 3           \* clock ticks a rewrite call is followed for
TickMs == 10000         \* length of one clock tick in milliseconds
MaxBlocks == 2          \* content blocks in a provider response

\* ------------------------------------------------------ program constants
DEFAULT_TIMEOUT_MS == 20000
RawPrefixLen == 300

Users == {"u1", "u2"}
Channels == {"c1", "c2"}
\* handler slots: interactions being handled at once
Slots == {1, 2}

\* ------------------------------------------------------------- JS values
\* Strings are sequences of characters; every JS value has the same shape.
Undefined == [t |-> "undefined", s |-> <<>>, n |-> 0]
Null == [t |-> "null", s |-> <<>>, n |-> 0]
Str(x) == [t |-> "string", s |-> x, n |-> 0]
Num(k) == [t |-> "number", s |-> <<>>, n |-> k]

Truthy(v) ==
  CASE v.t = "string" -> v.s # <<>>
    [] v.t = "number" -> v.n # 0
    [] OTHER -> FALSE

IsString(v) == v.t = "string"

IsWhite(c) == c \in {" ", "\n"}

RECURSIVE TrimStart(_)
TrimStart(s) ==
  IF s # <<>> /\ IsWhite(Head(s)) THEN TrimStart(Tail(s)) ELSE s

RECURSIVE TrimEnd(_)
TrimEnd(s) ==
  IF s # <<>> /\ IsWhite(s[Len(s)]) THEN TrimEnd(SubSeq(s, 1, Len(s) - 1)) ELSE s

\* String.prototype.trim
Trim(s) == TrimEnd(TrimStart(s))

\* Array.prototype.join with separator sep
RECURSIVE Join(_, _)
Join(texts, sep) ==
  IF texts = <<>> THEN <<>>
  ELSE IF Len(texts) = 1 THEN texts[1]
  ELSE texts[1] \o sep \o Join(Tail(texts), sep)

\* Array.prototype.map(b => b.text)
MapText(blocks) == [k \in 1..Len(blocks) |-> blocks[k].text.s]

MinOf(a, b) == IF a < b THEN a ELSE b

\* ------------------------------------------------- provider response text
\* A response body is text.  It is modelled by what it serialises (src: a
\* JSON value, or Garbage for text that is no JSON), the length of the whole
\* text (full) and the number of leading characters held (len).
Garbage == [t |-> "garbage", isArray |-> FALSE, blocks |-> <<>>,
            errorMessage |-> Undefined, message |-> Undefined]
JsonNull == [t |-> "null", isArray |-> FALSE, blocks |-> <<>>,
             errorMessage |-> Undefined, message |-> Undefined]
\* { content: [...blocks] }
ContentDoc(blocks) == [t |-> "object", isArray |-> TRUE, blocks |-> blocks,
                       errorMessage |-> Undefined, message |-> Undefined]
\* { error: { message: em }, message: m } (either may be undefined)
ErrorDoc(em, m) == [t |-> "object", isArray |-> FALSE, blocks |-> <<>>,
                    errorMessage |-> em, message |-> m]

RawText(src, full) == [src |-> src, full |-> full, len |-> full]
EmptyRaw == RawText(Garbage, 0)

\* a slice that keeps the whole text (C11 tells it from raw.slice)
SliceWhole(raw, k) == raw

\* raw.slice(0, k)
Slice(raw, k) == [raw EXCEPT !.len = MinOf(raw.len, k)]

\* try { data = JSON.parse(raw) } catch {}   (data stays null on failure)
JSONParse(raw) ==
  IF raw.src.t = "object" /\ raw.len = raw.full /\ raw.full > 0
  THEN raw.src
  ELSE JsonNull

\* content blocks: { type, text }, or null
Block(type, text) == [v |-> "object", type |-> type, text |-> text]
NullBlock == [v |-> "null", type |-> "", text |-> Undefined]

\* ------------------------------------------------------------ extractText
NoText == [t |-> "null", s |-> <<>>, n |-> 0]

\* a filter that takes the text of every block, whatever its type (C10 tells it from IsTextBlock)
IsAnyTextBlock(b) == b.v = "object" /\ IsString(b.text)

\* .filter((b) => b && b.type === "text" && typeof b.text === "string")
IsTextBlock(b) == b.v = "object" /\ b.type = "text" /\ IsString(b.text)

\* texts.length ? texts.join("\n").trim() : null
JoinTrim(texts) == IF Len(texts) > 0 THEN Str(Trim(Join(texts, <<"\n">>))) ELSE NoText

extractText(data) ==
  IF data.t # "object" \/ ~data.isArray THEN NoText
  ELSE JoinTrim(MapText(SelectSeq(data.blocks, IsTextBlock)))

\* ------------------------------------------------------------ rewriteText
\* Errors thrown by rewriteText and by the platform calls.
NoDetail == [k |-> "none", v |-> Undefined, raw |-> EmptyRaw]
Err(type, status, detail) == [type |-> type, status |-> status, detail |-> detail]
NoErr == Err("none", 0, NoDetail)
MissingCredential == Err("MissingCredential", 0, NoDetail)
InvalidInput == Err("InvalidInput", 0, NoDetail)
Timeout == Err("Timeout", 0, NoDetail)
TransportError == Err("TransportError", 0, NoDetail)
\* a rejected platform call: deferReply, showModal, editReply of a normal
\* reply, a step of the webhook post, the fallback interaction.channel.send
DeferFailed == Err("deferReply rejected", 0, NoDetail)
ReplyFailed == Err("reply rejected", 0, NoDetail)
PostFailed == Err("post rejected", 0, NoDetail)
FallbackFailed == Err("channel.send rejected", 0, NoDetail)
NoChannelError == Err("NoChannel", 0, NoDetail)

\* a message that prefers the top-level message to error.message (C12 tells it
\* from ProviderMessage)
ProviderMessageTopFirst(data, raw, status) ==
  IF Truthy(data.message) THEN [k |-> "field", v |-> data.message, raw |-> EmptyRaw]
  ELSE IF Truthy(data.errorMessage) THEN [k |-> "field", v |-> data.errorMessage, raw |-> EmptyRaw]
  ELSE IF Slice(raw, RawPrefixLen).len > 0
       THEN [k |-> "raw", v |-> Undefined, raw |-> Slice(raw, RawPrefixLen)]
  ELSE [k |-> "http", v |-> Num(status), raw |-> EmptyRaw]

\* data?.error?.message || data?.message || raw.slice(0, 300) || `HTTP ${res.status}`
ProviderMessage(data, raw, status) ==
  IF Truthy(data.errorMessage) THEN [k |-> "field", v |-> data.errorMessage, raw |-> EmptyRaw]
  ELSE IF Truthy(data.message) THEN [k |-> "field", v |-> data.message, raw |-> EmptyRaw]
  ELSE IF Slice(raw, RawPrefixLen).len > 0
       THEN [k |-> "raw", v |-> Undefined, raw |-> Slice(raw, RawPrefixLen)]
  ELSE [k |-> "http", v |-> Num(status), raw |-> EmptyRaw]

Outcome(t, text, err) == [t |-> t, text |-> text, err |-> err]
NoOutcome == Outcome("none", <<>>, NoErr)
Returned(text) == Outcome("ok", text, NoErr)
Thrown(err) == Outcome("err", <<>>, err)

\* checks that let a non-string through (C8 tells them from Precheck)
PrecheckNoType(e, originalText) ==
  IF ~Truthy(e.apiKey) THEN Thrown(MissingCredential)
  ELSE IF ~Truthy(originalText) THEN Thrown(InvalidInput)
  ELSE NoOutcome

\* checks that look at the text before the key (C9 tells them from Precheck)
PrecheckTextFirst(e, originalText) ==
  IF ~Truthy(originalText) \/ ~IsString(originalText) THEN Thrown(InvalidInput)
  ELSE IF ~Truthy(e.apiKey) THEN Thrown(MissingCredential)
  ELSE NoOutcome

\* lines 13-18: the checks made before any request is built
Precheck(e, originalText) ==
  IF ~Truthy(e.apiKey) THEN Thrown(MissingCredential)
  ELSE IF ~Truthy(originalText) \/ ~IsString(originalText) THEN Thrown(InvalidInput)
  ELSE NoOutcome

DefaultModel == <<"o", "p", "u", "s">>
DefaultUrl == <<"a", "n", "t", "h">>

\* lines 14-15, 20-34, 41-50: the request handed to fetch
Request(e, originalText) ==
  [url |-> IF Truthy(e.url) THEN e.url.s ELSE DefaultUrl,
   model |-> IF Truthy(e.model) THEN e.model.s ELSE DefaultModel,
   apiKey |-> e.apiKey.s,
   text |-> originalText.s]

\* lines 56-70: what rewriteText does with a fully read body
Interpret(ok, status, raw) ==
  LET data == JSONParse(raw)
      rewritten == extractText(data)
  IN IF ~ok THEN Thrown(Err("ProviderError", status, ProviderMessage(data, raw, status)))
     ELSE IF ~Truthy(rewritten)
          THEN Thrown(Err("MalformedResponse", 0,
                          [k |-> "raw", v |-> Undefined, raw |-> Slice(raw, RawPrefixLen)]))
     ELSE Returned(rewritten.s)

\* ------------------------------------------------------------------ state
VARIABLES
  build,          \* which revision of the handler is registered: "v1" or "v3"
  env,            \* process.env: apiKey, model, url
  pendingByUser,  \* the draft store (pendingByUser / drafts): a Map, as its entries
  handlers,       \* per slot: the interaction being handled and its position
  calls,          \* rewriteText calls followed step by step (SpecRewrite)
  posted,         \* messages posted to channels, in order
  previews,       \* preview messages (with Send/Cancel buttons) users hold
  lastEnd,        \* how the handler that finished last ended: reply, error, escape
  nEvents         \* interactions dispatched so far

vars == <<build, env, pendingByUser, handlers, calls, posted, previews, lastEnd, nEvents>>

\* ---------------------------------------------------------- the Map store
NoDraft == [rewrittenText |-> <<>>, channelId |-> "none"]
Draft(text, channelId) == [rewrittenText |-> text, channelId |-> channelId]

MapHas(m, k) == \E e \in m : e.key = k
\* Map.prototype.get (NoDraft stands for undefined)
MapGet(m, k) == IF MapHas(m, k) THEN (CHOOSE e \in m : e.key = k).value ELSE NoDraft
\* a delete that empties the map (C6 tells it from Map.prototype.delete)
MapDeleteAll(m, k) == {}
\* Map.prototype.delete
MapDelete(m, k) == {e \in m : e.key # k}
\* a set that keeps the previous entry of the key (C5 tells it from Map.prototype.set)
MapSetKeepsOld(m, k, v) == m \cup {[key |-> k, value |-> v]}
\* Map.prototype.set
MapSet(m, k, v) == {e \in m : e.key # k} \cup {[key |-> k, value |-> v]}

\* a store of the text the user typed instead of the rewrite (C1 tells it from StoreDraft)
StoreDraftOriginal(m, h, rewritten_text) == MapSet(m, h.user, Draft(h.originalText.s, h.channelId))

\* lines 214-218 (v1), 591-594 (v3): the draft stored after a successful rewrite
\* (createdAt is written by v1 and read nowhere; it is left out)
StoreDraft(m, h, rewritten_text) == MapSet(m, h.user, Draft(rewritten_text, h.channelId))

\* a removal that removes nothing (C2 tells it from RemoveDraft)
RemoveDraftKeeps(m, h) == m

\* lines 245, 277 (v1), 620, 636 (v3)
RemoveDraft(m, h) == MapDelete(m, h.user)

\* line 251 (v1), 616 (v3)
ReadDraft(m, h) == MapGet(m, h.user)

\* --------------------------------------------------------------- handlers
\* Replies carry v1's wording ("Cancelled.", "Sent.", "No pending rewrite found.",
\* "Different channel."); v3 words the same replies "Canceled.", "Sent. Only the
\* rewrite was posted." and "No active draft found." and has no "Different
\* channel." reply.  "preview", "modal" and "Error" stand for the preview message,
\* the modal shown and the `Error: ...` reply; "none" for no reply at all.
NoPreview == [user |-> "none", channelId |-> "none", text |-> <<>>]

IdleHandler ==
  [kind |-> "none", user |-> "none", channelId |-> "none", pc |-> "idle",
   originalText |-> Undefined, pending |-> NoDraft,
   button |-> NoPreview, err |-> NoErr, reply |-> "none", escaped |-> FALSE]

NewHandler(kind, u, c) == [IdleHandler EXCEPT !.kind = kind, !.user = u, !.channelId = c]

IdleCall ==
  [pc |-> "idle", timer |-> "none", elapsed |-> 0, ok |-> FALSE, status |-> 0,
   nreq |-> 0, req |-> Request([apiKey |-> Undefined, model |-> Undefined, url |-> Undefined],
                               Undefined),
   input |-> Undefined, raw |-> EmptyRaw, outcome |-> NoOutcome]

Free(i) == handlers[i].pc = "idle"
\* a new interaction takes the lowest free slot
FirstFree(i) == Free(i) /\ \A j \in Slots : j < i => ~Free(j)

\* a start that remembers earlier calls and refuses a second one (C14 tells it
\* from RewriteStart)
RewriteStartOnce(e, originalText) ==
  IF \E j \in Slots : calls[j].pc # "idle"
  THEN [IdleCall EXCEPT !.pc = "settled", !.input = originalText,
                        !.outcome = Thrown(InvalidInput)]
  ELSE [IdleCall EXCEPT !.pc = "fetch", !.input = originalText, !.timer = "armed",
                        !.nreq = 1, !.req = Request(e, originalText)]

\* a start that sends the request twice (C13 tells it from RewriteStart)
RewriteStartTwice(e, originalText) ==
  LET pre == Precheck(e, originalText)
  IN IF pre.t = "err"
     THEN [IdleCall EXCEPT !.pc = "settled", !.input = originalText, !.outcome = pre]
     ELSE [IdleCall EXCEPT !.pc = "fetch", !.input = originalText, !.timer = "armed",
                           !.nreq = 2, !.req = Request(e, originalText)]

\* lines 12-50: rewriteText up to its first suspension (await fetch)
RewriteStart(e, originalText) ==
  LET pre == Precheck(e, originalText)
  IN IF pre.t = "err"
     THEN [IdleCall EXCEPT !.pc = "settled", !.input = originalText, !.outcome = pre]
     ELSE [IdleCall EXCEPT !.pc = "fetch", !.input = originalText, !.timer = "armed",
                           !.nreq = 1, !.req = Request(e, originalText)]

\* A finished handler: what the user saw of it (its locals are gone).
Ended(h) == [IdleHandler EXCEPT !.pc = "done", !.kind = h.kind, !.user = h.user]

\* the handler in slot i goes on as h; a finished handler frees its slot and
\* is remembered in lastEnd
Step(i, h) ==
  /\ handlers' = [handlers EXCEPT ![i] = IF h.pc = "done" THEN IdleHandler ELSE h]
  /\ lastEnd' = IF h.pc = "done" THEN h ELSE lastEnd
\* a rejection nothing catches leaves the handler (an unhandled rejection)
Escapes(h, err) == [Ended(h) EXCEPT !.escaped = TRUE, !.err = err]
Finish(h, reply, err) == [Ended(h) EXCEPT !.reply = reply, !.err = err]

\* a catch block that reports without the error it caught (C15 tells it from
\* CatchTail)
CatchTailGeneric(b, h, err, okErr) ==
  IF okErr THEN Finish(h, "Error", NoErr)
  ELSE IF b = "v1" THEN Finish(h, "none", NoErr)
  ELSE Escapes(h, NoErr)

\* lines 282-300 (v1): report the error with editReply or reply; a failure of
\* that report is ignored.  lines 640-650 (v3): the report is awaited
\* unguarded inside the catch block.  (okErr: the report call resolves)
CatchTail(b, h, err, okErr) ==
  IF okErr THEN Finish(h, "Error", err)
  ELSE IF b = "v1" THEN Finish(h, "none", err)
  ELSE Escapes(h, err)

\* the reply that ends a normal path.  v1 awaits it inside the try (lines 232,
\* 246, 254, 262, 278), so its rejection reaches the catch block; v3 returns the
\* promise without awaiting it (lines 607, 617, 621, 637), so its rejection is
\* not caught.  (okReply: the reply call resolves)
ReplyTail(b, h, reply, okReply, okErr) ==
  IF okReply THEN Finish(h, reply, NoErr)
  ELSE IF b = "v1" THEN CatchTail(b, h, ReplyFailed, okErr)
  ELSE Escapes(h, ReplyFailed)

\* the ways a handler can end from its catch block, and from its last reply
CatchEnds(b, h, err) == {CatchTail(b, h, err, okErr) : okErr \in BOOLEAN}
ReplyEnds(b, h, reply) ==
  {ReplyTail(b, h, reply, okReply, okErr) : okReply \in BOOLEAN, okErr \in BOOLEAN}

\* line 162 and 274 (v1): interaction.channel; line 625 (v3): the channel
\* fetched by draft.channelId
PostChannel(b, h) == IF b = "v1" THEN h.channelId ELSE h.pending.channelId

Post(channelId, content, username, via) ==
  [channelId |-> channelId, content |-> content, username |-> username, via |-> via]

\* texts users type into the modal (getTextInputValue)
Originals == {<<"x">>}

\* ---- /compose  (lines 186-202; 569-583): showModal is awaited in v1 and
\* returned unawaited in v3
ComposeCommand(i) ==
  /\ nEvents < MaxEvents /\ FirstFree(i)
  /\ \E u \in Users, c \in Channels :
       \E r \in ReplyEnds(build, NewHandler("command", u, c), "modal") : Step(i, r)
  /\ nEvents' = nEvents + 1
  /\ UNCHANGED <<build, env, pendingByUser, calls, posted, previews>>

\* lines 212-237 (v1), 589-610 (v3): the modal handler once rewriteText has
\* settled with outcome o
ModalAfterRewrite(i, h, o) ==
  IF o.t = "err"
  THEN /\ \E r \in CatchEnds(build, h, o.err) : Step(i, r)
       /\ UNCHANGED <<pendingByUser, previews>>
  ELSE /\ pendingByUser' = StoreDraft(pendingByUser, h, o.text)
       /\ \E r \in ReplyEnds(build, h, "preview") :
            /\ Step(i, r)
            /\ previews' = IF r.reply = "preview"
                           THEN previews \cup
                                  {[user |-> h.user, channelId |-> h.channelId, text |-> o.text]}
                           ELSE previews

\* every outcome a call of rewriteText can have (lines 12-71): the checks
\* fail, or the request is sent and fetch rejects, the timer aborts it, the
\* body cannot be read, or a status and a body arrive
CallOutcomes(e, originalText, bodies) ==
  IF Precheck(e, originalText).t = "err" THEN {Precheck(e, originalText)}
  ELSE {Thrown(TransportError), Thrown(Timeout)}
       \cup {Interpret(ok, IF ok THEN 200 ELSE 400, raw) : ok \in BOOLEAN, raw \in bodies}

\* ---- modal submit  (lines 205-212; 585-589): deferReply, then rewriteText
\* runs up to its fetch
ModalSubmit(i) ==
  /\ nEvents < MaxEvents /\ FirstFree(i)
  /\ \E u \in Users, c \in Channels, text \in Originals, okDefer \in BOOLEAN :
       LET h == [NewHandler("modal", u, c) EXCEPT !.originalText = Str(text)]
           pre == Precheck(env, h.originalText)
       IN IF ~okDefer
          THEN /\ \E r \in CatchEnds(build, h, DeferFailed) : Step(i, r)
               /\ UNCHANGED <<pendingByUser, previews>>
          ELSE IF pre.t = "err"
          THEN ModalAfterRewrite(i, h, pre)
          ELSE /\ Step(i, [h EXCEPT !.pc = "rewrite"])
               /\ UNCHANGED <<pendingByUser, previews>>
  /\ nEvents' = nEvents + 1
  /\ UNCHANGED <<build, env, calls, posted>>

\* ---- await rewriteText(...) settles  (lines 212-237; 589-610)
RewriteSettles(i, bodies) ==
  /\ handlers[i].pc = "rewrite"
  /\ \E o \in CallOutcomes(env, handlers[i].originalText, bodies) :
       ModalAfterRewrite(i, handlers[i], o)
  /\ UNCHANGED <<build, env, calls, posted, nEvents>>

\* a finished cancel is remembered together with the draft it removed from
\* the store (NoDraft when the user had none)
Removed(r, m, h) == [r EXCEPT !.pending = ReadDraft(m, h)]

\* a cancel branch that replies without deleting (C4 tells it from CancelV1)
CancelV1KeepsDraft(i, h) ==
  /\ pendingByUser' = pendingByUser
  /\ \E r \in ReplyEnds(build, h, "Cancelled.") : Step(i, Removed(r, pendingByUser, h))

\* lines 244-248 (v1): the cancel branch
CancelV1(i, h) ==
  /\ pendingByUser' = RemoveDraft(pendingByUser, h)
  /\ \E r \in ReplyEnds(build, h, "Cancelled.") : Step(i, Removed(r, pendingByUser, h))

\* lines 250-271 (v1): the send branch up to the post
\* (hasChannel: interaction.channel is not null, line 163; without it both
\* sendViaWebhook and the fallback on line 274 throw)
SendV1(i, h) ==
  LET pending == ReadDraft(pendingByUser, h) IN
  /\ IF pending = NoDraft
     THEN \E r \in ReplyEnds(build, h, "No pending rewrite found.") : Step(i, r)
     ELSE IF pending.channelId # h.channelId
     THEN \E r \in ReplyEnds(build, h, "Different channel.") : Step(i, r)
     ELSE \E hasChannel \in BOOLEAN :
            IF hasChannel
            THEN Step(i, [h EXCEPT !.pending = pending, !.pc = "posting"])
            ELSE \E r \in CatchEnds(build, h, NoChannelError) : Step(i, r)
  /\ UNCHANGED pendingByUser

\* lines 616-625 (v3): the draft is read before the button is told apart;
\* there is no channel check
ButtonV3(i, h) ==
  LET draft == ReadDraft(pendingByUser, h) IN
  IF draft = NoDraft
  THEN /\ \E r \in ReplyEnds(build, h, "No pending rewrite found.") : Step(i, r)
       /\ UNCHANGED pendingByUser
  ELSE IF h.kind = "cancel"
  THEN /\ pendingByUser' = RemoveDraft(pendingByUser, h)
       /\ \E r \in ReplyEnds(build, h, "Cancelled.") : Step(i, Removed(r, pendingByUser, h))
  ELSE /\ Step(i, [h EXCEPT !.pending = draft, !.pc = "posting"])
       /\ UNCHANGED pendingByUser

\* ---- a button of a preview message is pressed  (lines 241-271; 613-625)
ButtonPress(i) ==
  /\ nEvents < MaxEvents /\ FirstFree(i)
  /\ \E p \in previews, kind \in {"cancel", "send"}, okDefer \in BOOLEAN :
       LET h == [NewHandler(kind, p.user, p.channelId) EXCEPT !.button = p] IN
       IF ~okDefer
       THEN /\ \E r \in CatchEnds(build, h, DeferFailed) : Step(i, r)
            /\ UNCHANGED pendingByUser
       ELSE IF build = "v3" THEN ButtonV3(i, h)
       ELSE IF kind = "cancel" THEN CancelV1(i, h)
       ELSE SendV1(i, h)
  /\ nEvents' = nEvents + 1
  /\ UNCHANGED <<build, env, calls, posted, previews>>

\* the awaits of the webhook post: fetchWebhooks, createWebhook, hook.send
\* (lines 165-179); v3 fetches the channel first (lines 625-634)
WebhookSteps == {"channels.fetch", "fetchWebhooks", "createWebhook", "send"}
StepsOf(b) == IF b = "v1" THEN WebhookSteps \ {"channels.fetch"} ELSE WebhookSteps

\* lines 270-275 (v1): a failed webhook post falls back to
\* interaction.channel.send; v3 (lines 625-634) has no fallback.
\* failedAt = "none": the webhook post went through.
PostVia(b, failedAt, okFallback) ==
  IF failedAt = "none" THEN "webhook"
  ELSE IF b = "v1" /\ okFallback THEN "bot"
  ELSE "failed"

\* the error that reaches the catch block when nothing could be posted: in v1
\* the inner catch (line 272) drops the webhook's error and the error of
\* channel.send (line 274) is thrown; in v3 it is the webhook's error
PostError(b) == IF b = "v1" THEN FallbackFailed ELSE PostFailed

\* the ways the post can end
PostOutcomes(b) ==
  {PostVia(b, failedAt, okFallback) :
     failedAt \in StepsOf(b) \cup {"none"}, okFallback \in BOOLEAN}

\* ---- the post of a send settles  (lines 161-180, 269-279; 625-637)
PostDone(i) ==
  LET h == handlers[i] IN
  /\ h.pc = "posting"
  /\ \E via \in PostOutcomes(build) :
       IF via = "failed"
       THEN /\ \E r \in CatchEnds(build, h, PostError(build)) : Step(i, r)
            /\ UNCHANGED <<pendingByUser, posted>>
       ELSE /\ posted' = Append(posted,
                            Post(IF via = "bot" THEN h.channelId ELSE PostChannel(build, h),
                                 h.pending.rewrittenText,
                                 IF via = "bot" THEN "bot" ELSE h.user, via))
            /\ pendingByUser' = RemoveDraft(pendingByUser, h)
            /\ \E r \in ReplyEnds(build, h, "Sent.") : Step(i, r)
  /\ UNCHANGED <<build, env, calls, previews, nEvents>>

\* ------------------------------------------------- the rewriteText call
InFlight(c) == c.pc \in {"fetch", "body"}
TimerDue(c) == c.timer = "armed" /\ c.elapsed >= DEFAULT_TIMEOUT_MS
HorizonMs == MaxTicks * TickMs

\* the promise returned by rewriteText settles
Settle(c, outcome) == [c EXCEPT !.pc = "settled", !.outcome = outcome]

\* line 52: clearTimeout(timeout) in the finally of the awaited fetch
ClearTimer(c) == [c EXCEPT !.timer = "cleared"]

\* ---- rewriteText({ originalText }) is called  (lines 12-50)
Invoke(i, inputs) ==
  /\ calls[i].pc = "idle"
  /\ \E originalText \in inputs : calls' = [calls EXCEPT ![i] = RewriteStart(env, originalText)]
  /\ UNCHANGED <<build, env, pendingByUser, handlers, posted, previews, lastEnd, nEvents>>

\* ---- lines 41-55: fetch resolves with the response head; the body is read next
FetchResponds(i) ==
  /\ calls[i].pc = "fetch"
  /\ \E ok \in BOOLEAN :
       calls' = [calls EXCEPT ![i] =
          [ClearTimer(@) EXCEPT !.pc = "body", !.ok = ok,
                                !.status = IF ok THEN 200 ELSE 400]]
  /\ UNCHANGED <<build, env, pendingByUser, handlers, posted, previews, lastEnd, nEvents>>

\* ---- lines 41-53: fetch rejects (DNS, connection): the error is surfaced as is
FetchFails(i) ==
  /\ calls[i].pc = "fetch"
  /\ calls' = [calls EXCEPT ![i] = Settle(ClearTimer(@), Thrown(TransportError))]
  /\ UNCHANGED <<build, env, pendingByUser, handlers, posted, previews, lastEnd, nEvents>>

\* ---- line 37: the timer fires, controller.abort() rejects the pending fetch
TimerFires(i) ==
  /\ InFlight(calls[i]) /\ TimerDue(calls[i])
  /\ calls' = [calls EXCEPT ![i] = Settle([@ EXCEPT !.timer = "fired"], Thrown(Timeout))]
  /\ UNCHANGED <<build, env, pendingByUser, handlers, posted, previews, lastEnd, nEvents>>

\* ---- lines 55-70: res.text() resolves with the whole body
BodyArrives(i, bodies) ==
  /\ calls[i].pc = "body"
  /\ \E raw \in bodies :
       calls' = [calls EXCEPT ![i] =
                   Settle([@ EXCEPT !.raw = raw], Interpret(@.ok, @.status, raw))]
  /\ UNCHANGED <<build, env, pendingByUser, handlers, posted, previews, lastEnd, nEvents>>

\* ---- line 55: res.text() rejects (the connection breaks while the body is read)
BodyFails(i) ==
  /\ calls[i].pc = "body"
  /\ calls' = [calls EXCEPT ![i] = Settle(@, Thrown(TransportError))]
  /\ UNCHANGED <<build, env, pendingByUser, handlers, posted, previews, lastEnd, nEvents>>

\* ---- time passes; a due timer fires before the clock moves on
Tick ==
  /\ \E i \in Slots : InFlight(calls[i]) /\ calls[i].elapsed < HorizonMs
  /\ \A i \in Slots : ~(InFlight(calls[i]) /\ TimerDue(calls[i]))
  /\ calls' = [i \in Slots |->
        IF InFlight(calls[i]) /\ calls[i].elapsed < HorizonMs
        THEN [calls[i] EXCEPT !.elapsed = @ + TickMs]
        ELSE calls[i]]
  /\ UNCHANGED <<build, env, pendingByUser, handlers, posted, previews, lastEnd, nEvents>>

\* ------------------------------------------------------- the bot as a whole
Env(apiKey, model, url) == [apiKey |-> apiKey, model |-> model, url |-> url]

\* bodies the provider sends while the bot runs
BotBodies ==
  { RawText(ContentDoc(<<Block("text", Str(<<"a">>))>>), 40),
    RawText(ContentDoc(<<Block("text", Str(<<"b">>))>>), 40) }

Init ==
  /\ build \in {"v1", "v3"}
  /\ env \in {Env(Str(<<"k">>), Undefined, Undefined), Env(Undefined, Undefined, Undefined)}
  /\ pendingByUser = {}
  /\ handlers = [i \in Slots |-> IdleHandler]
  /\ calls = [i \in Slots |-> IdleCall]
  /\ posted = <<>>
  /\ previews = {}
  /\ lastEnd = IdleHandler
  /\ nEvents = 0

Next ==
  \/ \E i \in Slots : ComposeCommand(i)
  \/ \E i \in Slots : ModalSubmit(i)
  \/ \E i \in Slots : RewriteSettles(i, BotBodies)
  \/ \E i \in Slots : ButtonPress(i)
  \/ \E i \in Slots : PostDone(i)

Spec == Init /\ [][Next]_vars

\* ------------------------------------------------- rewriteText on its own
\* values a caller may pass as originalText
Inputs == {Undefined, Null, Num(0), Num(5), Str(<<>>), Str(<<"x">>), Str(<<" ">>)}

\* process.env settings: ANTHROPIC_API_KEY, ANTHROPIC_MODEL, REWRITE_API_URL
Envs ==
  {Env(k, m, u) : k \in {Undefined, Str(<<>>), Str(<<"k">>)},
                  m \in {Undefined, Str(<<"m">>)},
                  u \in {Undefined, Str(<<"u">>)}}

\* content blocks a response may hold
Blocks ==
  { NullBlock,
    Block("text", Str(<<"a">>)),
    Block("text", Str(<<"b", " ">>)),
    Block("text", Str(<<" ">>)),
    Block("text", Str(<<>>)),
    Block("text", Num(5)),
    Block("tool_use", Str(<<"c">>)) }

RECURSIVE SeqsUpTo(_, _)
SeqsUpTo(S, n) ==
  IF n = 0 THEN {<<>>}
  ELSE LET shorter == SeqsUpTo(S, n - 1)
       IN shorter \cup {Append(q, x) : q \in shorter, x \in S}

ShortLen == 40
LongLen == 350

\* bodies the provider may send: content lists, error objects, other JSON,
\* text that is no JSON, nothing
Bodies ==
  {RawText(ContentDoc(blocks), ShortLen) : blocks \in SeqsUpTo(Blocks, MaxBlocks)}
  \cup {RawText(ErrorDoc(em, m), len) :
          em \in {Undefined, Str(<<>>), Str(<<"e">>)},
          m \in {Undefined, Str(<<"m">>)},
          len \in {ShortLen, LongLen}}
  \cup {RawText(ContentDoc(<<>>), LongLen), RawText(JsonNull, 4),
        RawText(Garbage, ShortLen), RawText(Garbage, LongLen), EmptyRaw}

\* the slot the call is followed in
CallSlots == {1}

InitRewrite ==
  /\ build = "v1"
  /\ env \in Envs
  /\ pendingByUser = {}
  /\ handlers = [i \in Slots |-> IdleHandler]
  /\ calls = [i \in Slots |-> IdleCall]
  /\ posted = <<>>
  /\ previews = {}
  /\ lastEnd = IdleHandler
  /\ nEvents = 0

NextRewrite ==
  \/ \E i \in CallSlots : Invoke(i, Inputs)
  \/ \E i \in CallSlots : FetchResponds(i)
  \/ \E i \in CallSlots : FetchFails(i)
  \/ \E i \in CallSlots : TimerFires(i)
  \/ \E i \in CallSlots : BodyArrives(i, Bodies)
  \/ \E i \in CallSlots : BodyFails(i)
  \/ Tick

SpecRewrite == InitRewrite /\ [][NextRewrite]_vars

\* ------------------------------------------------- two calls of rewriteText
\* Two calls, in any order and overlap, under one process.env.
InputsTwice == {Str(<<"x">>), Str(<<>>)}

BodiesTwice ==
  { RawText(ContentDoc(<<Block("text", Str(<<"a">>))>>), ShortLen),
    RawText(ContentDoc(<<Block("text", Str(<<"b", " ">>))>>), ShortLen),
    RawText(ErrorDoc(Str(<<"e">>), Undefined), ShortLen),
    RawText(Garbage, LongLen) }

InitTwice ==
  /\ build = "v1"
  /\ env \in {Env(Str(<<"k">>), Undefined, Undefined), Env(Undefined, Undefined, Undefined)}
  /\ pendingByUser = {}
  /\ handlers = [i \in Slots |-> IdleHandler]
  /\ calls = [i \in Slots |-> IdleCall]
  /\ posted = <<>>
  /\ previews = {}
  /\ lastEnd = IdleHandler
  /\ nEvents = 0

NextTwice ==
  \/ \E i \in Slots : Invoke(i, InputsTwice)
  \/ \E i \in Slots : FetchResponds(i)
  \/ \E i \in Slots : FetchFails(i)
  \/ \E i \in Slots : TimerFires(i)
  \/ \E i \in Slots : BodyArrives(i, BodiesTwice)
  \/ \E i \in Slots : BodyFails(i)
  \/ Tick

SpecTwice == InitTwice /\ [][NextTwice]_vars

\* ================================================================ claims
\* the handler in slot i, suspended so far, ends in this step
Ends(i) == handlers[i].pc \in {"rewrite", "posting"} /\ handlers'[i].pc = "idle"
\* an interaction of this kind is dispatched and its handler runs to its end
\* in this step
RunsThrough(kind) ==
  nEvents' = nEvents + 1 /\ handlers' = handlers /\ lastEnd'.kind = kind
\* a message is posted in this step
Posts == posted' # posted
LastPost == posted'[Len(posted')]
HasDraft(m, u) == MapGet(m, u) # NoDraft

\* ---------------------------------------------------------------------
\* C1: a message is posted only by the step of a send handler that read the
\* draft stored under its own user; the posted content is that draft's
\* rewritten text and never a text typed into the modal; a send handler takes
\* its draft from the store under its user's key and keeps it until the post;
\* commands, modal submits and cancels post nothing.
C1_PostedOnlyBySend ==
  [][ /\ Posts =>
           \E i \in Slots :
             /\ handlers[i].kind = "send" /\ Ends(i)
             /\ handlers[i].pending # NoDraft
             /\ posted' = Append(posted, LastPost)
             /\ LastPost.content = handlers[i].pending.rewrittenText
             /\ LastPost.content \notin Originals
      /\ \A i \in Slots :
           handlers'[i].pc = "posting" /\ handlers[i].pc # "posting" =>
             /\ handlers'[i].kind = "send"
             /\ handlers'[i].pending = MapGet(pendingByUser, handlers'[i].user)
             /\ handlers'[i].pending # NoDraft
      /\ \A i \in Slots :
           handlers[i].pc = "posting" /\ handlers'[i].pc = "posting" =>
             handlers'[i] = handlers[i]
    ]_vars

\* a draft has been posted through the webhook under the user's name
C1_Witness ==
  /\ Len(posted) >= 1
  /\ posted[1].via = "webhook" /\ posted[1].username \in Users
  /\ posted[1].content = <<"a">>

\* ---------------------------------------------------------------------
\* C2 (as claimed): whenever a send handler of user U that read U's draft in
\* the draft's own channel C ends, it has posted the draft's text to C and U
\* has no draft.
C2_SendAlwaysConsumes ==
  [][ \A i \in Slots :
        handlers[i].kind = "send" /\ Ends(i)
        /\ handlers[i].pending.channelId = handlers[i].channelId =>
          /\ Posts
          /\ ~HasDraft(pendingByUser', handlers[i].user)
    ]_vars

\* a send handler that ends without reaching the post (deferReply rejected,
\* no draft, no channel) posts nothing and leaves the store unchanged
C2_SendEndsEarly ==
  [][ RunsThrough("send") => ~Posts /\ pendingByUser' = pendingByUser ]_vars

\* C2 (amended): a send handler of U that read U's draft in the draft's own
\* channel C and whose post goes through (webhook, or the v1 fallback) posts
\* that draft's rewritten text to C and removes U's entry in the same step; when
\* every post attempt fails, or the handler ends before the post, nothing is
\* posted and the store is unchanged.
C2_SendConsumesWhenPosted ==
  /\ C2_SendEndsEarly
  /\ [][ \A i \in Slots :
           handlers[i].kind = "send" /\ Ends(i)
           /\ handlers[i].pending.channelId = handlers[i].channelId =>
             IF lastEnd'.err \in {PostFailed, FallbackFailed}
             THEN ~Posts /\ pendingByUser' = pendingByUser
             ELSE /\ posted' = Append(posted, LastPost)
                  /\ LastPost.channelId = handlers[i].channelId
                  /\ LastPost.content = handlers[i].pending.rewrittenText
                  /\ ~HasDraft(pendingByUser', handlers[i].user)
       ]_vars

\* a send ended with "Sent.", its post is in the channel and its user has no draft
C2_Witness ==
  /\ lastEnd.kind = "send" /\ lastEnd.reply = "Sent."
  /\ Len(posted) = 1
  /\ ~HasDraft(pendingByUser, lastEnd.user)

\* ---------------------------------------------------------------------
\* C3: a send handler pressed in a channel other than the channel of the
\* draft it read posts nothing and leaves the store as it is.
C3_CrossChannelSendRejected ==
  [][ \A i \in Slots :
        handlers[i].kind = "send" /\ Ends(i)
        /\ handlers[i].pending # NoDraft
        /\ handlers[i].pending.channelId # handlers[i].channelId =>
          ~Posts /\ pendingByUser' = pendingByUser
    ]_vars

C5_AtMostOne == \A u \in Users : Cardinality({e \in pendingByUser : e.key = u}) <= 1

C5_Written(i) ==
  LET u == handlers[i].user
      d == MapGet(pendingByUser', u)
  IN /\ Cardinality({e \in pendingByUser' : e.key = u}) = 1
     /\ d.channelId = handlers[i].channelId
     /\ d.rewrittenText \in {<<"a">>, <<"b">>}
     /\ lastEnd'.reply = "preview" =>
          [user |-> u, channelId |-> d.channelId, text |-> d.rewrittenText] \in previews'

C5_LastWriteWins ==
  /\ []C5_AtMostOne
  /\ [][ \A i \in Slots :
           handlers[i].kind = "modal" /\ Ends(i)
           /\ lastEnd'.err \in {NoErr, ReplyFailed} => C5_Written(i)
       ]_vars

\* a user holds an older preview whose draft a later compose has replaced
C5_Witness ==
  /\ lastEnd.kind = "modal" /\ lastEnd.reply = "preview"
  /\ \E p \in previews :
       /\ p.user = lastEnd.user
       /\ HasDraft(pendingByUser, p.user)
       /\ MapGet(pendingByUser, p.user).channelId = p.channelId
       /\ MapGet(pendingByUser, p.user).rewrittenText # p.text

\* ---------------------------------------------------------------------
\* C6: the draft of a user U changes only in a step of U's own handler: a
\* modal handler whose rewrite succeeded (the entry becomes that result), a
\* send handler that posted, or a cancel handler whose deferReply resolved
\* (the entry is gone).  Every other step (a failed rewrite, a send rejected
\* for its channel, any step of another user's handler, a step that changes
\* nothing) leaves U's text and origin channel as they were.
C6_Created(u, i) ==
  /\ handlers[i].kind = "modal" /\ handlers[i].user = u /\ Ends(i)
  /\ lastEnd'.err \in {NoErr, ReplyFailed}
  /\ MapGet(pendingByUser', u).channelId = handlers[i].channelId

C6_Sent(u, i) ==
  /\ handlers[i].kind = "send" /\ handlers[i].user = u /\ Ends(i)
  /\ Posts
  /\ ~HasDraft(pendingByUser', u)

C6_Cancelled(u) ==
  /\ RunsThrough("cancel") /\ lastEnd'.user = u
  /\ lastEnd'.err # DeferFailed
  /\ ~HasDraft(pendingByUser', u)

C6_DraftLifecycle ==
  [][ /\ \A u \in Users :
           MapGet(pendingByUser', u) # MapGet(pendingByUser, u) =>
             \/ \E i \in Slots : C6_Created(u, i)
             \/ \E i \in Slots : C6_Sent(u, i)
             \/ C6_Cancelled(u)
      /\ (RunsThrough("send") /\ lastEnd'.reply = "Different channel.") =>
           pendingByUser' = pendingByUser /\ ~Posts
    ]_vars

\* a send pressed in another channel than the draft's has just been turned
\* down and the draft is still stored
C6_Witness ==
  /\ lastEnd.kind = "send" /\ lastEnd.reply = "Different channel."
  /\ HasDraft(pendingByUser, lastEnd.user)
  /\ MapGet(pendingByUser, lastEnd.user).channelId # lastEnd.channelId
  /\ posted = <<>>

\* ---------------------------------------------------------------------
\* the call in slot i has been made
Called(i) == calls[i].pc # "idle"
Settled(i) == calls[i].pc = "settled"
\* ANTHROPIC_API_KEY is unset or set to the empty string
CredentialAbsent(e) == e.apiKey.t = "undefined" \/ (e.apiKey.t = "string" /\ e.apiKey.s = <<>>)
\* originalText is absent, not a string, or the empty string
InvalidText(v) == v.t # "string" \/ Len(v.s) = 0

\* C7: a rewrite call is never pending once more than 20 seconds have passed
\* since it was made, a call that took longer than that has failed with
\* Timeout, and no call sends more than one request.
C7_TimeoutCoversWholeRequest ==
  \A i \in Slots :
    /\ InFlight(calls[i]) => calls[i].elapsed <= DEFAULT_TIMEOUT_MS
    /\ Settled(i) /\ calls[i].elapsed > DEFAULT_TIMEOUT_MS =>
         calls[i].outcome = Thrown(Timeout)
    /\ calls[i].nreq <= 1

\* ---------------------------------------------------------------------
\* C8 (as claimed): a call with an invalid originalText has failed with
\* InvalidInput and sent no request, whatever the environment holds.
C8_InvalidInputAlways ==
  \A i \in Slots :
    Called(i) /\ InvalidText(calls[i].input) =>
      /\ Settled(i)
      /\ calls[i].nreq = 0
      /\ calls[i].outcome = Thrown(InvalidInput)

\* C8 (amended): a call with an invalid originalText has failed at once and
\* sent no request, for every model and endpoint setting; the failure is
\* InvalidInput when the credential is set and MissingCredential when it is not.
C8_InvalidInputNoRequest ==
  \A i \in Slots :
    Called(i) /\ InvalidText(calls[i].input) =>
      /\ Settled(i)
      /\ calls[i].nreq = 0
      /\ calls[i].elapsed = 0
      /\ calls[i].outcome =
           IF CredentialAbsent(env) THEN Thrown(MissingCredential) ELSE Thrown(InvalidInput)

\* a number was passed as originalText with the credential, a model and an
\* endpoint set, and the call failed with InvalidInput
C8_Witness ==
  /\ calls[1].input = Num(5)
  /\ ~CredentialAbsent(env) /\ Truthy(env.model) /\ Truthy(env.url)
  /\ calls[1].outcome = Thrown(InvalidInput)

\* ---------------------------------------------------------------------
\* C9: a call made while the credential is absent has failed with
\* MissingCredential at once and sent no request, whatever originalText is.
C9_MissingCredentialFirst ==
  \A i \in Slots :
    Called(i) /\ CredentialAbsent(env) =>
      /\ Settled(i)
      /\ calls[i].nreq = 0
      /\ calls[i].elapsed = 0
      /\ calls[i].outcome = Thrown(MissingCredential)

\* a call with an invalid text and no credential failed with MissingCredential
C9_Witness ==
  /\ CredentialAbsent(env)
  /\ InvalidText(calls[1].input)
  /\ calls[1].outcome = Thrown(MissingCredential)

\* ---------------------------------------------------------------------
\* The result C10 describes, written down independently of extractText.
C10_White == {" ", "\n"}

\* the texts of the blocks of type text, in order
RECURSIVE C10_Texts(_, _)
C10_Texts(blocks, needString) ==
  IF Len(blocks) = 0 THEN <<>>
  ELSE LET b == blocks[1]
           rest == C10_Texts(SubSeq(blocks, 2, Len(blocks)), needString)
       IN IF b.v = "object" /\ b.type = "text" /\ (needString => b.text.t = "string")
          THEN <<b.text.s>> \o rest
          ELSE rest

\* the texts with "\n" between them
C10_Joined(texts) ==
  LET RECURSIVE Acc(_)
      Acc(k) == IF k = 0 THEN <<>>
                ELSE IF k = 1 THEN texts[1]
                ELSE Acc(k - 1) \o <<"\n">> \o texts[k]
  IN Acc(Len(texts))

\* s without its leading and trailing whitespace
C10_Trimmed(s) ==
  LET inked == {k \in 1..Len(s) : s[k] \notin C10_White}
  IN IF inked = {} THEN <<>>
     ELSE SubSeq(s, CHOOSE k \in inked : \A j \in inked : k <= j,
                    CHOOSE k \in inked : \A j \in inked : k >= j)

\* the call in slot i was made with a non-empty text and got a success status
\* and a complete body { content: [...] }
C10_Success(i) ==
  /\ Settled(i) /\ ~InvalidText(calls[i].input)
  /\ calls[i].ok /\ calls[i].raw.len > 0
  /\ calls[i].raw.src.t = "object" /\ calls[i].raw.src.isArray

C10_Content(i) == calls[i].raw.src.blocks

\* C10 (as claimed): such a call whose content holds a block of type text has
\* returned the texts of the blocks of type text, joined by newlines and
\* trimmed.
C10_ReturnsJoinedTexts ==
  \A i \in Slots :
    C10_Success(i) /\ (\E k \in 1..Len(C10_Content(i)) :
                         C10_Content(i)[k].v = "object" /\ C10_Content(i)[k].type = "text") =>
      calls[i].outcome = Returned(C10_Trimmed(C10_Joined(C10_Texts(C10_Content(i), FALSE))))

\* C10 (amended): such a call has returned the texts of the blocks of type
\* text whose text is a string, in order, joined by newlines and trimmed,
\* provided that result is not empty; when there is no such block or the result
\* is empty (the texts are empty or whitespace) the call has failed with
\* MalformedResponse.  Blocks of other types, null blocks and blocks whose text
\* is no string contribute nothing.
C10_ReturnsJoinedStringTexts ==
  \A i \in Slots :
    C10_Success(i) =>
      LET result == C10_Trimmed(C10_Joined(C10_Texts(C10_Content(i), TRUE)))
      IN IF Len(result) > 0
         THEN calls[i].outcome = Returned(result)
         ELSE /\ calls[i].outcome.t = "err"
              /\ calls[i].outcome.err.type = "MalformedResponse"

\* a response with a tool_use block and a text block "b " gave "b"
C10_Witness ==
  /\ C10_Success(1)
  /\ Len(C10_Content(1)) = 2
  /\ C10_Content(1)[1].type = "tool_use"
  /\ C10_Content(1)[2].text = Str(<<"b", " ">>)
  /\ calls[1].outcome = Returned(<<"b">>)

\* ---------------------------------------------------------------------
\* the call in slot i got a response head and its body was read
BodyRead(i) ==
  /\ Settled(i) /\ calls[i].status # 0
  /\ ~(calls[i].outcome.t = "err" /\ calls[i].outcome.err.type = "TransportError")

\* the body of the call in slot i is a complete JSON object
C11_Parsed(i) ==
  calls[i].raw.src.t = "object" /\ calls[i].raw.full > 0 /\ calls[i].raw.len = calls[i].raw.full

\* the body holds a content list with a block of type text whose text is a string
C11_HasTextBlock(i) ==
  /\ C11_Parsed(i) /\ calls[i].raw.src.isArray
  /\ \E k \in 1..Len(calls[i].raw.src.blocks) :
       LET b == calls[i].raw.src.blocks[k]
       IN b.v = "object" /\ b.type = "text" /\ b.text.t = "string"

\* the first 300 characters of the body of the call in slot i
C11_Prefix(i) ==
  [src |-> calls[i].raw.src, full |-> calls[i].raw.full,
   len |-> IF calls[i].raw.full <= 300 THEN calls[i].raw.full ELSE 300]

\* C11: a call that got a success status and a body without a plain-text
\* content block (content empty, missing or no list, the body no JSON or empty)
\* has failed with MalformedResponse carrying the first 300 characters of the
\* body; no call has returned an empty text.
C11_MalformedResponse ==
  \A i \in Slots :
    /\ BodyRead(i) /\ calls[i].ok /\ ~C11_HasTextBlock(i) =>
         /\ calls[i].outcome.t = "err"
         /\ calls[i].outcome.err.type = "MalformedResponse"
         /\ calls[i].outcome.err.detail.k = "raw"
         /\ calls[i].outcome.err.detail.raw = C11_Prefix(i)
    /\ calls[i].outcome.t = "ok" => Len(calls[i].outcome.text) > 0

\* a success status with the body { content: [] }, longer than 300 characters,
\* failed with MalformedResponse carrying 300 characters of it
C11_Witness ==
  /\ BodyRead(1) /\ calls[1].ok
  /\ calls[1].raw.src = ContentDoc(<<>>) /\ calls[1].raw.full > 300
  /\ calls[1].outcome.err.type = "MalformedResponse"
  /\ calls[1].outcome.err.detail.raw.len = 300

\* ---------------------------------------------------------------------
\* a message field of the parsed body is present when it holds a non-empty
\* string (`||` passes over undefined and over the empty string alike)
C12_Present(v) == v.t = "string" /\ Len(v.s) > 0

\* the message C12 describes for the call in slot i
C12_Message(i) ==
  LET em == IF C11_Parsed(i) THEN calls[i].raw.src.errorMessage ELSE Undefined
      m == IF C11_Parsed(i) THEN calls[i].raw.src.message ELSE Undefined
  IN IF C12_Present(em) THEN [k |-> "field", v |-> em, raw |-> EmptyRaw]
     ELSE IF C12_Present(m) THEN [k |-> "field", v |-> m, raw |-> EmptyRaw]
     ELSE IF calls[i].raw.full > 0 THEN [k |-> "raw", v |-> Undefined, raw |-> C11_Prefix(i)]
     ELSE [k |-> "http", v |-> Num(calls[i].status), raw |-> EmptyRaw]

\* C12: a call that got a failure status has failed with
\* ProviderError(status, message), the message being the body's error.message
\* if present, else its top-level message if present, else the first 300
\* characters of the body if it has any, else "HTTP <status>".  A body that is
\* no JSON gives the raw text (or "HTTP <status>"), never another error, and a
\* failure status gives ProviderError even when the body holds text blocks.
C12_ProviderError ==
  \A i \in Slots :
    BodyRead(i) /\ ~calls[i].ok =>
      /\ calls[i].outcome.t = "err"
      /\ calls[i].outcome.err.type = "ProviderError"
      /\ calls[i].outcome.err.status = calls[i].status
      /\ calls[i].outcome.err.detail = C12_Message(i)

\* a failure status with the body { error: { message: "e" }, message: "m" }
\* failed with ProviderError(400, "e")
C12_Witness ==
  /\ BodyRead(1) /\ ~calls[1].ok
  /\ calls[1].raw.src = ErrorDoc(Str(<<"e">>), Str(<<"m">>))
  /\ calls[1].outcome.err.type = "ProviderError"
  /\ calls[1].outcome.err.status = 400
  /\ calls[1].outcome.err.detail.v = Str(<<"e">>)

\* ---------------------------------------------------------------------
\* the call in slot i passed the credential and input checks
PassedChecks(i) == Called(i) /\ ~CredentialAbsent(env) /\ ~InvalidText(calls[i].input)

\* C13: a call that passed the checks has sent exactly one request, from the
\* moment it was made and whatever became of it (result, provider error,
\* malformed response, timeout, transport error); no step of a call sends
\* another request, and no step of a call changes the draft store.
C13_ExactlyOneRequest ==
  /\ [](\A i \in Slots : PassedChecks(i) => calls[i].nreq = 1)
  /\ [][ /\ \A i \in Slots : Called(i) =>
                calls'[i].nreq = calls[i].nreq /\ calls'[i].req = calls[i].req
         /\ calls' # calls => pendingByUser' = pendingByUser
       ]_vars

\* a call that ran into the timeout has sent one request
C13_Witness ==
  /\ PassedChecks(1) /\ Settled(1)
  /\ calls[1].outcome = Thrown(Timeout)
  /\ calls[1].nreq = 1

\* ---------------------------------------------------------------------
\* the provider treated the calls in slots i and j alike: both were answered,
\* with the same status and the same body (or neither sent a request)
C14_SameResponse(i, j) ==
  \/ calls[i].nreq = 0 /\ calls[j].nreq = 0
  \/ /\ BodyRead(i) /\ BodyRead(j)
     /\ calls[i].ok = calls[j].ok /\ calls[i].status = calls[j].status
     /\ calls[i].raw = calls[j].raw

ModalEnds ==
  \/ \E i \in Slots : handlers[i].kind = "modal" /\ Ends(i)
  \/ RunsThrough("modal")

\* the errors rewriteText can throw to a modal handler
C15_RewriteErrors ==
  {o.err : o \in {x \in UNION {CallOutcomes(env, Str(text), BotBodies) : text \in Originals} :
                    x.t = "err"}}

\* rewriteText failed in the modal handler that ends in this step
C15_RewriteFailed == ModalEnds /\ lastEnd'.err \in C15_RewriteErrors

\* C15 (as claimed): whenever rewriteText fails in a modal handler, the
\* handler ends with the reply "Error: <message>" to its user.
C15_ErrorAlwaysSurfaced ==
  [][ C15_RewriteFailed => lastEnd'.reply = "Error" ]_vars

\* C15 (amended): whenever rewriteText fails in a modal handler, the handler
\* ends in that step without another call, storing no draft and showing no
\* preview, and it reports the error to its user: the reply is "Error:
\* <message>" with the message of the error thrown, unless the report itself is
\* rejected, in which case the user gets no reply.  An Error reply never comes
\* without the error that caused it.
C15_ErrorSurfacedIfDeliverable ==
  [][ ModalEnds =>
        /\ C15_RewriteFailed =>
             /\ lastEnd'.reply \in {"Error", "none"}
             /\ lastEnd'.reply = "Error" => ~lastEnd'.escaped
             /\ pendingByUser' = pendingByUser /\ previews' = previews
             /\ \A i \in Slots : handlers[i].pc = "rewrite" /\ handlers'[i] # handlers[i] =>
                                   handlers'[i] = IdleHandler
        /\ lastEnd'.reply = "Error" => lastEnd'.err # NoErr
        /\ lastEnd'.err = NoErr => lastEnd'.reply = "preview"
    ]_vars

\* a modal handler whose rewrite timed out replied with the Timeout error
C15_Witness ==
  /\ lastEnd.kind = "modal"
  /\ lastEnd.reply = "Error"
  /\ lastEnd.err = Timeout
  /\ pendingByUser = {} /\ previews = {}

\* ---------------------------------------------------------------------
\* C16: no handler ends with an exception escaping it, whichever interaction
\* it handled and whichever platform calls were rejected; in particular a
\* rejected error report is discarded.
C16_NothingEscapes == ~lastEnd.escaped

\* ---------------------------------------------------------------------
\* C17: a send handler that reached the post ends in one of two ways.  It has
\* posted the draft's text exactly once, through the webhook or, the webhook
\* having failed, by the bot itself, and only then removed the draft; or the
\* bot's own post was tried and rejected as well, nothing is posted and the
\* draft stays.  The reply "Sent." comes only after a post.
C17_FallbackThenSent ==
  [][ \A i \in Slots :
        handlers[i].kind = "send" /\ Ends(i) =>
          /\ IF Posts
             THEN /\ posted' = Append(posted, LastPost)
                  /\ LastPost.content = handlers[i].pending.rewrittenText
                  /\ LastPost.via \in {"webhook", "bot"}
                  /\ ~HasDraft(pendingByUser', handlers[i].user)
             ELSE /\ lastEnd'.err = FallbackFailed
                  /\ pendingByUser' = pendingByUser
          /\ lastEnd'.reply = "Sent." => Posts
    ]_vars

\* ---------------------------------------------------------------------
\* C18: no draft is posted twice.  A draft is stored by one modal submit and a
\* send handler posts at most once, so when every post is of a draft of its
\* own, n posts take n modal submits and n presses of Send: twice the number
\* of messages posted never exceeds the number of interactions dispatched.
C18_EachDraftPostedOnce == 2 * Len(posted) <= nEvents

\* ---------------------------------------------------------------------
\* C19: the text a send handler posts is the text of the preview message
\* whose Send button started it.
C19_PostsPreviewedText ==
  [][ Posts =>
        \E i \in Slots :
          /\ handlers[i].kind = "send" /\ Ends(i)
          /\ LastPost.content = handlers[i].button.text
    ]_vars

\* ---------------------------------------------------------------------
\* C20: a send handler that posts removes only the draft it read: when the
\* store holds another draft of its user by then (a later compose replaced the
\* one being sent), that draft is still stored after the handler has ended.
C20_SendKeepsNewerDraft ==
  [][ \A i \in Slots :
        /\ handlers[i].kind = "send" /\ Ends(i) /\ Posts
        /\ HasDraft(pendingByUser, handlers[i].user)
        /\ MapGet(pendingByUser, handlers[i].user) # handlers[i].pending
        => MapGet(pendingByUser', handlers[i].user) = MapGet(pendingByUser, handlers[i].user)
    ]_vars

\* ---------------------------------------------------------------------
\* C21: once a cancel handler of user U has removed a draft and replied
\* "Cancelled.", no send handler of U posts that draft: while U's cancel is
\* the handler that ended last, a send handler of U that read the removed
\* draft before the cancel ran does not post it.
C21_CancelledNotPosted ==
  [][ \A i \in Slots :
        /\ lastEnd.kind = "cancel" /\ lastEnd.reply = "Cancelled."
        /\ lastEnd.pending # NoDraft
        /\ handlers[i].kind = "send" /\ handlers[i].user = lastEnd.user
        /\ handlers[i].pending = lastEnd.pending
        /\ Ends(i)
        => ~Posts
    ]_vars

====
